---- MODULE Spec2Model ----
(***************************************************************************)
(* Model of the lambda handler (src/src/main.py) and of the S3 object      *)
(* wrapper (src/src/objectwrapper.py, duplicated in src/src/main.py).      *)
(*                                                                         *)
(* Every operation is one action.  The collaborators (chrome driver, the   *)
(* boto3 object/bucket resources, the local file system) are outside the   *)
(* repository: what they answer is drawn with \E, and what the code does   *)
(* with the answer is computed by the operators below.  The history        *)
(* variables calls, log, result, last and prev describe the most recent    *)
(* operation: the external calls it issued in order, the logger records    *)
(* it wrote, how it ended, its name and arguments.                         *)
(***************************************************************************)
EXTENDS Integers, Sequences, FiniteSets, TLC

VARIABLES store, files, handles, calls, log, result, last, prev

vars == <<store, files, handles, calls, log, result, last, prev>>

----------------------------------------------------------------------------
(* Bounds and input domains *)

MaxTitleLen == 1

None == "None"

\* "no exception": what a call that does not raise answers
Ok == [cls |-> "ok", code |-> "ok"]

\* characters of page titles; the double quote and the backslash are the
\* ones json.dumps escapes
Chars == {"a", "\"", "\\"}

Titles == UNION {[1..n -> Chars] : n \in 0..MaxTitleLen}

ExampleUrl == "https://example.com"

\* object keys are sequences of path segments, "" is the empty sequence
Key1 == <<"a/", "1">>
Key2 == <<"b/", "2">>
NoKey == <<>>
Keys == {Key1, Key2}
KeyOrder == <<Key1, Key2>>

Bkt == "bkt"

\* an object resource: bucket name and key, as given to bucket.Object(key)
Objs == {[bucket |-> Bkt, key |-> k] : k \in Keys}

Str(s) == [kind |-> "str", v |-> s]
Bytes(b) == [kind |-> "bytes", v |-> b]

\* the text of a str as bytes
Encode(s) == Bytes(s)

\* possible local file systems: file name -> content (bytes)
FileSystems ==
    { <<>>,
      [n \in {"f1", ExampleUrl} |-> IF n = "f1" THEN Bytes("data1") ELSE Bytes("<html>")] }

\* payloads given to put()
Payloads == {Str("f1"), Str("nofile"), Bytes("raw")}

----------------------------------------------------------------------------
(* Exceptions *)

Exc(cls, code) == [cls |-> cls, code |-> code]

\* the classes an exception class inherits from, itself included
Mro(cls) ==
    CASE cls = "ObjClientExceptions" -> {"ObjClientExceptions", "ClientError", "Exception"}
      [] cls = "ClientError" -> {"ClientError", "Exception"}
      [] cls = "FileNotFoundError" -> {"FileNotFoundError", "IOError", "Exception"}
      [] OTHER -> {cls, "Exception"}

\* `except cls:` catches e
Catches(cls, e) == cls \in Mro(e.cls)

Returned(v) == [kind |-> "returned", value |-> v]
Raised(e) == [kind |-> "raised", exc |-> e]

\* one external call of an operation: its name, its argument, what it
\* answered (Ok or the exception it raised) and the value it returned
Call(name, arg, ans, ret) == [name |-> name, arg |-> arg, ans |-> ans, ret |-> ret]

LogExc(msg, ctx, e) == [level |-> "exception", msg |-> msg, ctx |-> ctx, exc |-> e]
LogInfo(variant, msg, ctx) ==
    IF variant = "objectwrapper"
    THEN <<[level |-> "info", msg |-> msg, ctx |-> ctx, exc |-> Ok]>>
    ELSE <<>>

----------------------------------------------------------------------------
(* The storage service as the wrapper sees it *)

\* store: object -> Absent or [body, confirmed]; confirmed is what
\* wait_until_exists establishes (the service answers for the object)
NoBody == [kind |-> "none", v |-> ""]
Absent == [body |-> NoBody, confirmed |-> FALSE]

\* the SDK rejects an empty bucket name or key before any request is sent
ValidObj(obj) == obj.bucket # "" /\ obj.key # NoKey

ParamError == Exc("ParamValidationError", "empty")

\* what a storage client call may raise: the SDK's ClientError, or (from an
\* injected resource) the repository's own subclass of it
ClientErrors == {Exc("ClientError", "AccessDenied"), Exc("ObjClientExceptions", "AccessDenied")}

NoSuchKey == Exc("ClientError", "NoSuchKey")

WaiterError == Exc("WaiterError", "max attempts")

\* the bytes a Body uploads: the bytes themselves, or what the file holds
BodyBytes(put_data, fs) ==
    IF put_data.kind = "file" THEN fs[put_data.v] ELSE put_data

\* key starts with prefix (both sequences of segments)
StartsWith(key, prefix) ==
    /\ Len(prefix) <= Len(key)
    /\ SubSeq(key, 1, Len(prefix)) = prefix

----------------------------------------------------------------------------
(* ObjectWrapper.put *)

\* isinstance(data, str)
PutTreatsAsFilenameMutant(data) == data.kind \in {"str", "bytes"}
PutTreatsAsFilename(data) == data.kind = "str"

\* open(data, "rb") against the local files
OpenFile(name, fs) ==
    IF name \in DOMAIN fs
    THEN [ok |-> TRUE, handle |-> [kind |-> "file", v |-> name]]
    ELSE [ok |-> FALSE, exc |-> Exc("FileNotFoundError", name)]

\* a bug: the open error is swallowed and the str itself is uploaded
PutOpenMutant(data, fs) ==
    IF ~PutTreatsAsFilename(data)
    THEN [raised |-> FALSE, put_data |-> data, calls |-> <<>>, log |-> <<>>]
    ELSE LET o == OpenFile(data.v, fs) IN
         [raised |-> FALSE,
          put_data |-> IF o.ok THEN o.handle ELSE Encode(data.v),
          calls |-> <<Call("open", data.v, IF o.ok THEN Ok ELSE o.exc, None)>>,
          log |-> <<>>]

\* the first part of put: put_data is data, or the file opened under that name
PutOpen(data, fs) ==
    IF ~PutTreatsAsFilename(data)
    THEN [raised |-> FALSE, put_data |-> data, calls |-> <<>>, log |-> <<>>]
    ELSE LET o == OpenFile(data.v, fs) IN
         IF o.ok
         THEN [raised |-> FALSE, put_data |-> o.handle,
               calls |-> <<Call("open", data.v, Ok, None)>>, log |-> <<>>]
         ELSE [raised |-> TRUE, exc |-> o.exc,
               calls |-> <<Call("open", data.v, o.exc, None)>>,
               log |-> <<LogExc("Expected file name or binary data", [name |-> data.v], o.exc)>>]

\* the except clause shared by the wrapper's operations: an exception of
\* class ObjClientExceptions is logged with its context; every exception
\* leaves the operation as it is
ExceptLog(msg, ctx, e) ==
    IF Catches("ObjClientExceptions", e) THEN <<LogExc(msg, ctx, e)>> ELSE <<>>

ObjCtx(obj) == [key |-> obj.key, bucket |-> obj.bucket]
BucketCtx(bucket) == [bucket |-> bucket]

\* a bug: put returns without waiting for the object to exist
PutTryMutant(variant, obj, put_data, fs, st, po, wo) ==
    IF po # Ok
    THEN [raised |-> TRUE, exc |-> po, store |-> st,
          calls |-> <<Call("object.put", put_data, po, None)>>,
          log |-> ExceptLog("Couldn't put object", ObjCtx(obj), po)]
    ELSE [raised |-> FALSE,
          store |-> [st EXCEPT ![obj] = [body |-> BodyBytes(put_data, fs), confirmed |-> FALSE]],
          calls |-> <<Call("object.put", put_data, Ok, None)>>,
          log |-> LogInfo(variant, "Put object", ObjCtx(obj))]

\* the try block of put: object.put(Body=put_data), then wait_until_exists();
\* po and wo are what the two calls answer (Ok or the exception they raise)
PutTry(variant, obj, put_data, fs, st, po, wo) ==
    IF po # Ok
    THEN [raised |-> TRUE, exc |-> po, store |-> st,
          calls |-> <<Call("object.put", put_data, po, None)>>,
          log |-> ExceptLog("Couldn't put object", ObjCtx(obj), po)]
    ELSE LET st1 == [st EXCEPT ![obj] = [body |-> BodyBytes(put_data, fs), confirmed |-> FALSE]]
             cs == <<Call("object.put", put_data, Ok, None),
                     Call("wait_until_exists", obj, wo, None)>>
         IN IF wo # Ok
            THEN [raised |-> TRUE, exc |-> wo, store |-> st1, calls |-> cs,
                  log |-> ExceptLog("Couldn't put object", ObjCtx(obj), wo)]
            ELSE [raised |-> FALSE,
                  store |-> [st1 EXCEPT ![obj].confirmed = TRUE],
                  calls |-> cs,
                  log |-> LogInfo(variant, "Put object", ObjCtx(obj))]

\* a bug: the handle is closed at the end of the try block, not in finally
PutFinallyMutant(put_data, raised) ==
    IF put_data.kind = "file" /\ ~raised
    THEN [calls |-> <<Call("close", put_data.v, Ok, None)>>, open |-> {}]
    ELSE [calls |-> <<>>, open |-> IF put_data.kind = "file" THEN {put_data.v} ELSE {}]

\* the finally clause of put: close put_data when it has a close attribute
\* (a file object has one, bytes have none); open is what stays open
PutFinally(put_data, raised) ==
    IF put_data.kind = "file"
    THEN [calls |-> <<Call("close", put_data.v, Ok, None)>>, open |-> {}]
    ELSE [calls |-> <<>>, open |-> {}]

\* ObjectWrapper(obj).put(data)
WrapperPut(variant, obj, data, fs, st, po, wo) ==
    LET o == PutOpen(data, fs) IN
    IF o.raised
    THEN [result |-> Raised(o.exc), store |-> st, calls |-> o.calls,
          log |-> o.log, open |-> {}]
    ELSE LET t == PutTry(variant, obj, o.put_data, fs, st, po, wo)
             f == PutFinally(o.put_data, t.raised)
         IN [result |-> IF t.raised THEN Raised(t.exc) ELSE Returned(None),
             store |-> t.store,
             calls |-> o.calls \o t.calls \o f.calls,
             log |-> o.log \o t.log,
             open |-> f.open]

----------------------------------------------------------------------------
(* ObjectWrapper.get, list, delete, delete_objects, empty_bucket *)

\* what object.get() may answer: a missing object is NoSuchKey; an object
\* not yet confirmed may or may not be found
GetAnswers(obj, st) ==
    ClientErrors
      \cup (IF st[obj] = Absent \/ ~st[obj].confirmed THEN {NoSuchKey} ELSE {})
      \cup (IF st[obj] # Absent THEN {Ok} ELSE {})

\* ObjectWrapper(obj).get(): go is what object.get() answers
WrapperGet(variant, obj, st, go) ==
    IF go # Ok
    THEN [result |-> Raised(go), store |-> st,
          calls |-> <<Call("object.get", obj, go, None)>>,
          log |-> ExceptLog("Couldn't get object", ObjCtx(obj), go)]
    ELSE [result |-> Returned(st[obj].body), store |-> st,
          calls |-> <<Call("object.get", obj, Ok, st[obj].body)>>,
          log |-> LogInfo(variant, "Got object", ObjCtx(obj))]

\* the keys of bucket in the store, in key order, that start with prefix
Listing(bucket, prefix, st) ==
    SelectSeq(KeyOrder,
              LAMBDA k : /\ [bucket |-> bucket, key |-> k] \in DOMAIN st
                         /\ st[[bucket |-> bucket, key |-> k]] # Absent
                         /\ StartsWith(k, prefix))

\* ObjectWrapper.list(bucket, prefix): an empty or missing prefix lists all
\* objects (objects.all()), any other goes to objects.filter(Prefix=prefix)
WrapperList(variant, bucket, prefix, st, lo) ==
    LET objects == IF lo = Ok THEN Listing(bucket, prefix, st) ELSE <<>>
        c == IF prefix = <<>>
             THEN Call("objects.all", [bucket |-> bucket], lo, objects)
             ELSE Call("objects.filter", [bucket |-> bucket, prefix |-> prefix], lo, objects)
    IN IF lo # Ok
       THEN [result |-> Raised(lo), store |-> st, calls |-> <<c>>,
             log |-> ExceptLog("Couldn't get objects", BucketCtx(bucket), lo)]
       ELSE [result |-> Returned(objects), store |-> st,
             calls |-> <<c>>,
             log |-> LogInfo(variant, "Got objects", BucketCtx(bucket))]

\* ObjectWrapper(obj).delete(): object.delete(), then wait_until_not_exists()
WrapperDelete(variant, obj, st, do, wo) ==
    IF do # Ok
    THEN [result |-> Raised(do), store |-> st,
          calls |-> <<Call("object.delete", obj, do, None)>>,
          log |-> ExceptLog("Couldn't delete object", ObjCtx(obj), do)]
    ELSE LET st1 == [st EXCEPT ![obj] = Absent]
             cs == <<Call("object.delete", obj, Ok, None),
                     Call("wait_until_not_exists", obj, wo, None)>>
         IN IF wo # Ok
            THEN [result |-> Raised(wo), store |-> st1, calls |-> cs,
                  log |-> ExceptLog("Couldn't delete object", ObjCtx(obj), wo)]
            ELSE [result |-> Returned(None), store |-> st1, calls |-> cs,
                  log |-> LogInfo(variant, "Deleted object", ObjCtx(obj))]

\* the service's answer to one batch delete of object_keys of which the keys
\* in failed could not be deleted: "Deleted" and "Errors" are present only
\* when they have entries
BatchResponse(object_keys, failed) ==
    LET del == SelectSeq(object_keys, LAMBDA k : k \notin failed)
        err == SelectSeq(object_keys, LAMBDA k : k \in failed)
        D == [i \in 1..Len(del) |-> [Key |-> del[i]]]
        E == [i \in 1..Len(err) |-> [Key |-> err[i], Code |-> "AccessDenied"]]
    IN [f \in (IF del # <<>> THEN {"Deleted"} ELSE {}) \cup
              (IF err # <<>> THEN {"Errors"} ELSE {})
          |-> IF f = "Deleted" THEN D ELSE E]

\* the store after the batch delete answered by response
BatchStore(bucket, response, st) ==
    [o \in DOMAIN st |->
        IF /\ "Deleted" \in DOMAIN response
           /\ o.bucket = bucket
           /\ \E i \in 1..Len(response["Deleted"]) : response["Deleted"][i].Key = o.key
        THEN Absent ELSE st[o]]

\* a bug: a response with "Errors" is turned into an exception
DeleteObjectsReturnMutant(response) ==
    IF "Errors" \in DOMAIN response
    THEN Raised(Exc("ClientError", "PartialFailure"))
    ELSE Returned(response)

\* the else clause of delete_objects: the response goes back as it came
DeleteObjectsReturn(response) == Returned(response)

\* the logger records delete_objects writes for a response
DeleteObjectsLog(variant, bucket, response) ==
    (IF "Deleted" \in DOMAIN response
     THEN LogInfo(variant, "Deleted objects", BucketCtx(bucket)) ELSE <<>>)
    \o
    (IF "Errors" \in DOMAIN response
     THEN <<[level |-> "warning", msg |-> "Could not delete objects",
             ctx |-> BucketCtx(bucket), exc |-> Ok]>>
     ELSE <<>>)

\* ObjectWrapper.delete_objects(bucket, object_keys): do is Ok or the
\* exception bucket.delete_objects raises, failed the keys the service
\* reports under "Errors"
WrapperDeleteObjects(variant, bucket, object_keys, st, do, failed) ==
    LET a == [bucket |-> bucket, keys |-> object_keys] IN
    IF do # Ok
    THEN [result |-> Raised(do), store |-> st,
          calls |-> <<Call("bucket.delete_objects", a, do, None)>>,
          log |-> ExceptLog("Couldn't delete any objects", BucketCtx(bucket), do)]
    ELSE LET response == BatchResponse(object_keys, failed) IN
         [result |-> DeleteObjectsReturn(response),
          store |-> BatchStore(bucket, response, st),
          calls |-> <<Call("bucket.delete_objects", a, Ok, response)>>,
          log |-> DeleteObjectsLog(variant, bucket, response)]

\* ObjectWrapper.empty_bucket(bucket): bucket.objects.delete()
WrapperEmptyBucket(variant, bucket, st, eo) ==
    IF eo # Ok
    THEN [result |-> Raised(eo), store |-> st,
          calls |-> <<Call("objects.delete", bucket, eo, None)>>,
          log |-> ExceptLog("Couldn't empty bucket", BucketCtx(bucket), eo)]
    ELSE [result |-> Returned(None),
          store |-> [o \in DOMAIN st |-> IF o.bucket = bucket THEN Absent ELSE st[o]],
          calls |-> <<Call("objects.delete", bucket, Ok, None)>>,
          log |-> LogInfo(variant, "Emptied bucket", BucketCtx(bucket))]

----------------------------------------------------------------------------
(* main.py: initialise_driver, put_object, lambda_handler *)

StatusOK == 200

WebDriverError == Exc("WebDriverException", "driver")

\* requests: every key is optional
Events ==
    { [k \in {"test-url", "s3-bucket", "s3-object-key"} |->
          CASE k = "test-url" -> ExampleUrl
            [] k = "s3-bucket" -> Bkt
            [] OTHER -> Key1],
      [k \in {"test-url"} |-> ExampleUrl],
      [k \in {"s3-bucket", "s3-object-key"} |-> IF k = "s3-bucket" THEN Bkt ELSE Key2] }

\* event.get(k, default)
EventGet(event, k, default) == IF k \in DOMAIN event THEN event[k] ELSE default

\* json.dumps of a str: the characters between double quotes, the double
\* quote and the backslash escaped with a backslash
JsonEscape(c) ==
    IF c = "\"" THEN <<"\\", "\"">>
    ELSE IF c = "\\" THEN <<"\\", "\\">>
    ELSE <<c>>

RECURSIVE JsonChars(_)
JsonChars(s) == IF s = <<>> THEN <<>> ELSE JsonEscape(Head(s)) \o JsonChars(Tail(s))

JsonString(s) == <<"\"">> \o JsonChars(s) \o <<"\"">>

\* json.dumps({"title": title}), as a sequence of characters and tokens
JsonDumps(title) == <<"{", "\"title\"", ":", " ">> \o JsonString(title) \o <<"}">>

\* the response lambda_handler builds for a title
Response(title) ==
    [statusCode |-> StatusOK,
     headers |-> [ContentType |-> "application/json"],
     body |-> JsonDumps(title)]

\* a bug: a failed navigation is tried a second time
HandlerDriverMutant(url, title, lo, no, t1, t2) ==
    LET c0 == <<Call("webdriver.Chrome", None, lo, None)>>
        c1 == c0 \o <<Call("driver.get", url, no, None)>>
        c2 == c1 \o <<Call("driver.title", None, t1, IF t1 = Ok THEN title ELSE None)>>
        c3 == c2 \o <<Call("driver.title", None, t2, IF t2 = Ok THEN title ELSE None)>>
    IN IF lo # Ok THEN [raised |-> TRUE, exc |-> lo, calls |-> c0]
       ELSE IF no # Ok THEN [raised |-> TRUE, exc |-> no,
                            calls |-> c1 \o <<Call("driver.get", url, no, None)>>]
       ELSE IF t1 # Ok THEN [raised |-> TRUE, exc |-> t1, calls |-> c2]
       ELSE IF t2 # Ok THEN [raised |-> TRUE, exc |-> t2, calls |-> c3]
       ELSE [raised |-> FALSE, response |-> Response(title), calls |-> c3]

\* the driver part of lambda_handler: initialise_driver(), driver.get(url),
\* driver.title read for the print, driver.title read again for the body;
\* title is the title of the page the navigation loaded, lo, no, t1, t2 what
\* the four calls answer
HandlerDriver(url, title, lo, no, t1, t2) ==
    LET c0 == <<Call("webdriver.Chrome", None, lo, None)>>
        c1 == c0 \o <<Call("driver.get", url, no, None)>>
        c2 == c1 \o <<Call("driver.title", None, t1, IF t1 = Ok THEN title ELSE None)>>
        c3 == c2 \o <<Call("driver.title", None, t2, IF t2 = Ok THEN title ELSE None)>>
    IN IF lo # Ok THEN [raised |-> TRUE, exc |-> lo, calls |-> c0]
       ELSE IF no # Ok THEN [raised |-> TRUE, exc |-> no, calls |-> c1]
       ELSE IF t1 # Ok THEN [raised |-> TRUE, exc |-> t1, calls |-> c2]
       ELSE IF t2 # Ok THEN [raised |-> TRUE, exc |-> t2, calls |-> c3]
       ELSE [raised |-> FALSE, response |-> Response(title), calls |-> c3]

\* put_object(data, bucket, object_key): the wrapper's put of data, then the
\* listing of the bucket
PutObject(data, bucket, object_key, fs, st, po, wo, lo) ==
    LET obj == [bucket |-> bucket, key |-> object_key]
        p == WrapperPut("main", obj, data, fs, st, po, wo)
    IN IF p.result.kind = "raised" THEN p
       ELSE LET l == WrapperList("main", bucket, <<>>, p.store, lo) IN
            [result |-> IF l.result.kind = "raised" THEN l.result ELSE Returned(None),
             store |-> l.store,
             calls |-> p.calls \o l.calls,
             log |-> p.log \o l.log,
             open |-> p.open]

\* a bug: a failure of the storage write is swallowed
HandlerReturnMutant(response, putResult) == Returned(response)

\* the end of lambda_handler: put_object is not guarded, so what it raises
\* leaves the handler; otherwise the response is returned
HandlerReturn(response, putResult) ==
    IF putResult.kind = "raised" THEN putResult ELSE Returned(response)

\* lambda_handler(event, context)
LambdaHandlerRun(event, title, fs, st, lo, no, t1, t2, po, wo, so) ==
    LET test_url == EventGet(event, "test-url", "")
        d == HandlerDriver(test_url, title, lo, no, t1, t2)
    IN IF d.raised
       THEN [result |-> Raised(d.exc), store |-> st, calls |-> d.calls,
             log |-> <<>>, open |-> {}]
       ELSE LET s3_bucket == EventGet(event, "s3-bucket", "")
                s3_object_key == EventGet(event, "s3-object-key", NoKey)
                p == PutObject(Str(test_url), s3_bucket, s3_object_key, fs, st, po, wo, so)
            IN [result |-> HandlerReturn(d.response, p.result),
                store |-> p.store,
                calls |-> d.calls \o p.calls,
                log |-> p.log,
                open |-> p.open]

----------------------------------------------------------------------------------------------------------------------------------------
(* The state machine *)

NoObj == [bucket |-> "", key |-> NoKey]

Prefixes == {<<>>, <<"a/">>, <<"b/", "2">>}

KeyLists == {<<Key1>>, <<Key1, Key2>>, <<Key2, Key1>>}

\* An operation stops at the first call that raises, so the answers of one
\* operation are drawn as the place of the first failure and its exception:
\* the answer of call c is the exception when c is that place, Ok otherwise.
NoFault == [at |-> "none", exc |-> Ok]

Faults(places, excs) == {NoFault} \cup [at : places, exc : excs]

Answer(fault, place) == IF fault.at = place THEN fault.exc ELSE Ok

PutFaults == Faults({"put"}, ClientErrors) \cup Faults({"wait"}, {WaiterError})

DeleteFaults == Faults({"delete"}, ClientErrors) \cup Faults({"wait"}, {WaiterError})

HandlerFaults ==
    Faults({"launch", "nav", "title1", "title2"}, {WebDriverError})
      \cup Faults({"put", "list"}, ClientErrors)
      \cup Faults({"wait"}, {WaiterError})

\* the object a request names
EventObj(event) ==
    [bucket |-> EventGet(event, "s3-bucket", ""),
     key |-> EventGet(event, "s3-object-key", NoKey)]

Init ==
    /\ store = [o \in Objs |-> Absent]
    /\ files \in FileSystems
    /\ handles = {}
    /\ calls = <<>>
    /\ log = <<>>
    /\ result = Returned(None)
    /\ last = [op |-> "init", obj |-> NoObj, arg |-> None]
    /\ prev = NoObj

\* an operation ended as r: the state it leaves.  prev is the object the
\* operation before this one put successfully, NoObj when it was no such put
Finish(op, obj, arg, r) ==
    /\ store' = r.store
    /\ handles' = handles \cup r.open
    /\ calls' = r.calls
    /\ log' = r.log
    /\ result' = r.result
    /\ last' = [op |-> op, obj |-> obj, arg |-> arg]
    /\ prev' = IF last.op = "put" /\ result.kind = "returned" THEN last.obj ELSE NoObj
    /\ UNCHANGED files

Put ==
    \E obj \in Objs, data \in Payloads, f \in PutFaults :
        Finish("put", obj, data,
               WrapperPut("objectwrapper", obj, data, files, store,
                          Answer(f, "put"), Answer(f, "wait")))

Get ==
    \E obj \in Objs :
      \E go \in GetAnswers(obj, store) :
        Finish("get", obj, None,
               [open |-> {}] @@ WrapperGet("objectwrapper", obj, store, go))

List ==
    \E prefix \in Prefixes, lo \in {Ok} \cup ClientErrors :
        Finish("list", NoObj, prefix,
               [open |-> {}] @@ WrapperList("objectwrapper", Bkt, prefix, store, lo))

Delete ==
    \E obj \in Objs, f \in DeleteFaults :
        Finish("delete", obj, None,
               [open |-> {}] @@
               WrapperDelete("objectwrapper", obj, store,
                             Answer(f, "delete"), Answer(f, "wait")))

DeleteObjects ==
    \E object_keys \in KeyLists :
      \/ \E do \in ClientErrors :
           Finish("delete_objects", NoObj, object_keys,
                  [open |-> {}] @@
                  WrapperDeleteObjects("objectwrapper", Bkt, object_keys, store, do, {}))
      \/ \E failed \in SUBSET Keys :
           Finish("delete_objects", NoObj, object_keys,
                  [open |-> {}] @@
                  WrapperDeleteObjects("objectwrapper", Bkt, object_keys, store, Ok, failed))

EmptyBucket ==
    \E eo \in {Ok} \cup ClientErrors :
        Finish("empty_bucket", NoObj, None,
               [open |-> {}] @@ WrapperEmptyBucket("objectwrapper", Bkt, store, eo))

LambdaHandler ==
    \E event \in Events, title \in Titles, f \in HandlerFaults :
        Finish("lambda_handler", EventObj(event), event,
               LambdaHandlerRun(event, title, files, store,
                   Answer(f, "launch"),
                   IF EventGet(event, "test-url", "") = "" THEN WebDriverError
                   ELSE Answer(f, "nav"),
                   Answer(f, "title1"), Answer(f, "title2"),
                   IF ValidObj(EventObj(event)) THEN Answer(f, "put") ELSE ParamError,
                   Answer(f, "wait"), Answer(f, "list")))

Next ==
    \/ Put
    \/ Get
    \/ List
    \/ Delete
    \/ DeleteObjects
    \/ EmptyBucket
    \/ LambdaHandler

Spec == Init /\ [][Next]_vars

----------------------------------------------------------------------------
(* Properties *)

CallIdx == 1..Len(calls)

Issued(name) == \E i \in CallIdx : calls[i].name = name

Count(name) == Cardinality({i \in CallIdx : calls[i].name = name})

\* every external call of the last operation answered without raising
AllCallsOk == \A i \in CallIdx : calls[i].ans = Ok

\* the classes of the exceptions the driver and the storage service raise
CollaboratorClasses ==
    {"WebDriverException", "ClientError", "ObjClientExceptions", "WaiterError",
     "ParamValidationError"}

InHandler == last.op = "lambda_handler"

HandlerUrl == EventGet(last.arg, "test-url", "")

\* launch, navigation and both title reads of the last handler run succeeded
DriverPartOk ==
    /\ Len(calls) >= 4
    /\ \A i \in 1..4 : calls[i].ans = Ok

\* C1: for a request with test-url "https://example.com", when neither the
\* driver nor the storage service raises, lambda_handler returns statusCode
\* 200, Content-Type application/json and the JSON encoding of
\* {"title": T}, T the title the driver reported.
C1_HandlerReturnsTitle ==
    (/\ InHandler
     /\ HandlerUrl = ExampleUrl
     /\ ~(result.kind = "raised" /\ result.exc.cls \in CollaboratorClasses))
    => /\ result.kind = "returned"
       /\ result.value = [statusCode |-> 200,
                          headers |-> [ContentType |-> "application/json"],
                          body |-> JsonDumps(calls[4].ret)]

\* C2 as stated: whenever launch, navigation and the title reads succeed,
\* lambda_handler returns the response, also when the storage write raises
\* (the runs in which put could not open its payload are left aside: the
\* statement is about the write to the storage service).
C2_ReturnsRegardless ==
    (/\ InHandler /\ DriverPartOk
     /\ ~\E i \in CallIdx : calls[i].name = "open" /\ calls[i].ans # Ok)
    => result.kind = "returned"

\* C2 amended: when launch, navigation and the title reads succeed,
\* lambda_handler returns the response (200, the captured title) exactly
\* when no call of put_object raises; when one raises, that exception
\* leaves the handler and no response is returned.
C2_ReturnsUnlessPutRaises ==
    (InHandler /\ DriverPartOk) =>
        /\ AllCallsOk => result = Returned(Response(calls[4].ret))
        /\ ~AllCallsOk =>
              \E i \in CallIdx : /\ i > 4
                                 /\ calls[i].ans # Ok
                                 /\ result = Raised(calls[i].ans)

C2_Witness ==
    /\ InHandler /\ DriverPartOk
    /\ \E i \in CallIdx : /\ calls[i].name = "object.put"
                          /\ calls[i].ans.cls = "ClientError"
                          /\ result = Raised(calls[i].ans)

\* C3: whenever the storage write of lambda_handler completes, the body
\* stored under (s3-bucket, s3-object-key) is the test-url string itself.
C3_StoredBodyIsUrl ==
    (/\ InHandler
     /\ \E i \in CallIdx : calls[i].name = "object.put" /\ calls[i].ans = Ok)
    => store[last.obj].body = Encode(HandlerUrl)

WrapperOps == {"put", "get", "list", "delete", "delete_objects", "empty_bucket"}

\* the context a logger record of the last operation has to name
LastCtx ==
    IF last.op \in {"put", "get", "delete"} THEN ObjCtx(last.obj) ELSE BucketCtx(Bkt)

\* C4: when the storage call of put, get, list, delete, delete_objects or
\* empty_bucket raises a botocore ClientError, the wrapper logs it with the
\* key / bucket context and the caller gets the same exception.
C4_ClientErrorLoggedAndReraised ==
    \A i \in CallIdx :
        (last.op \in WrapperOps /\ calls[i].ans.cls = "ClientError")
        => /\ result = Raised(calls[i].ans)
           /\ \E j \in 1..Len(log) : /\ log[j].level = "exception"
                                     /\ log[j].exc = calls[i].ans
                                     /\ log[j].ctx = LastCtx

\* C5: after put (called directly or by lambda_handler) no file handle that
\* the call opened is open: every successful open is followed by its
\* close, on every exit path.
C5_HandlesClosed ==
    (last.op \in {"put", "lambda_handler"}) =>
        /\ handles = {}
        /\ \A i \in CallIdx :
              (calls[i].name = "open" /\ calls[i].ans = Ok)
              => \E j \in CallIdx : /\ j > i
                                    /\ calls[j].name = "close"
                                    /\ calls[j].arg = calls[i].arg
        /\ Count("close") = Cardinality({i \in CallIdx : calls[i].name = "open"
                                                          /\ calls[i].ans = Ok})

\* put opened a file and the upload raised
C5_Witness ==
    /\ last.op = "put"
    /\ result.kind = "raised"
    /\ \E i, j \in CallIdx : /\ calls[i].name = "open" /\ calls[i].ans = Ok
                             /\ calls[j].name = "object.put" /\ calls[j].ans # Ok
    /\ Issued("close")
    /\ handles = {}

\* C6: put returns normally only after object.put and then
\* wait_until_exists have answered, in that order; a get of the same object
\* right after such a put does not fail with not-found: it returns the body.
C6_PutWaitsThenGetFinds ==
    /\ (last.op = "put" /\ result.kind = "returned") =>
          \E i, j \in CallIdx :
              /\ i < j
              /\ calls[i].name = "object.put" /\ calls[i].ans = Ok
              /\ calls[j].name = "wait_until_exists" /\ calls[j].ans = Ok
              /\ calls[j].arg = last.obj
    /\ (last.op = "get" /\ prev = last.obj) =>
          /\ result # Raised(NoSuchKey)
          /\ calls[1].ans = Ok => result = Returned(store[last.obj].body)

C6_Witness ==
    /\ last.op = "get"
    /\ prev = last.obj
    /\ result.kind = "returned"
    /\ result.value = Bytes("raw")

\* put was called with a str that names no local file
PutOfMissingFile ==
    /\ last.op = "put"
    /\ last.arg.kind = "str"
    /\ last.arg.v \notin DOMAIN files

\* C7: put with a str payload that names no existing file tries to open it,
\* logs and raises the open error, issues neither the upload nor
\* wait_until_exists, and leaves the stored objects as they were.
C7_MissingFileRaisesAndStoresNothing ==
    [][ PutOfMissingFile' =>
          /\ calls' = <<Call("open", last'.arg.v,
                             Exc("FileNotFoundError", last'.arg.v), None)>>
          /\ result' = Raised(Exc("FileNotFoundError", last'.arg.v))
          /\ \E j \in 1..Len(log') : /\ log'[j].level = "exception"
                                     /\ log'[j].exc = result'.exc
          /\ store' = store ]_vars

\* a put of a missing file was answered while another object is stored
C7_Witness ==
    /\ PutOfMissingFile
    /\ result.kind = "raised"
    /\ store[last.obj] = Absent
    /\ \E o \in Objs : store[o] # Absent

\* C8: put with a bytes payload never opens a file and passes the bytes as
\* the upload Body as given; put opens a file if and only if the payload is
\* a str.
C8_BytesNeverOpened ==
    (last.op = "put") =>
        /\ Issued("open") <=> last.arg.kind = "str"
        /\ last.arg.kind = "bytes" =>
              /\ calls[1].name = "object.put"
              /\ calls[1].arg = last.arg
              /\ Count("object.put") = 1

C8_Witness ==
    /\ last.op = "put"
    /\ last.arg.kind = "bytes"
    /\ result.kind = "returned"
    /\ store[last.obj].body = last.arg
    /\ ~Issued("open")

\* C9: delete_objects issues one batch request for all the keys; when the
\* service answers with a response, also one that reports keys under
\* "Deleted" and others under "Errors", the call does not raise and
\* returns that response unmodified.
C9_BatchDeletePartialFailure ==
    (last.op = "delete_objects") =>
        /\ Len(calls) = 1
        /\ calls[1].name = "bucket.delete_objects"
        /\ calls[1].arg.keys = last.arg
        /\ calls[1].ans = Ok => result = Returned(calls[1].ret)

\* a batch delete of two keys: the first deleted, the second failed
C9_Witness ==
    /\ last.op = "delete_objects"
    /\ last.arg = <<Key1, Key2>>
    /\ result.kind = "returned"
    /\ DOMAIN result.value = {"Deleted", "Errors"}
    /\ result.value["Deleted"] = <<[Key |-> Key1]>>
    /\ result.value["Errors"] = <<[Key |-> Key2, Code |-> "AccessDenied"]>>
    /\ Len(log) = 2 /\ log[2].level = "warning"

\* the place of an external call in the handler's fixed order
Order(name) ==
    CASE name = "webdriver.Chrome" -> 1
      [] name = "driver.get" -> 2
      [] name = "driver.title" -> 3
      [] name = "open" -> 4
      [] name = "object.put" -> 5
      [] name = "wait_until_exists" -> 6
      [] name = "close" -> 7
      [] name = "objects.all" -> 8
      [] OTHER -> 0

StorageCalls == {"object.put", "wait_until_exists", "objects.all"}

\* the external calls of the last handler run follow the fixed order, none
\* of them out of place; a call that raised is followed by nothing but the
\* close of the file put had opened; a failed launch or navigation is
\* followed by nothing at all
HandlerOrder ==
    /\ \A i \in CallIdx : Order(calls[i].name) > 0
    /\ \A i, j \in CallIdx : i < j => Order(calls[i].name) <= Order(calls[j].name)
    /\ \A i, j \in CallIdx :
          (i < j /\ calls[i].ans # Ok) => calls[j].name = "close"
    /\ \A i \in CallIdx :
          (calls[i].name \in {"webdriver.Chrome", "driver.get"} /\ calls[i].ans # Ok)
          => /\ i = Len(calls)
             /\ \A n \in StorageCalls : ~Issued(n)

====
